---------------------------- MODULE Spec2Model ----------------------------
(***************************************************************************)
(* The activity monitor of libs/core/src/LocalActivityMonitor.cc as a      *)
(* state machine of threads calling its public operations.                 *)
(*                                                                         *)
(* Each thread is either outside the monitor (pc = "idle") or at a         *)
(* position inside one operation.  A section of code that runs between a   *)
(* lock.lock() and the matching lock.unlock() is one step, except where    *)
(* set_parameters, which takes no lock, can interleave observably: the     *)
(* body of action_notify is split after the read of activity_state.  Code  *)
(* that runs without the lock (set_parameters, the publish and the return  *)
(* of get_current_state) is one step per access.                           *)
(*                                                                         *)
(* Time.  gint64 microsecond values do not fit TLC's integers once a       *)
(* shift of an hour is applied, so every time and duration is counted in   *)
(* units of 8 microseconds: 8 divides 1000, G_USEC_PER_SEC and 2^32, so    *)
(* n * 1000 us is n * 125 units, one second is 125000 units and the width  *)
(* of int, 2^32 us, is 2^29 units.  The clock advances a second at a time. *)
(*                                                                         *)
(* The specifications at the end each let the threads call one group of    *)
(* operations, so that the fields a group does not touch keep one value.   *)
(* terminate() only stops the external input source: it is not among the   *)
(* steps.                                                                  *)
(***************************************************************************)
EXTENDS Integers, FiniteSets, Sequences, TLC

(* ------------------------------ bounds -------------------------------- *)

\* The clock runs from 1 to MaxTime seconds.
MaxTime == 4

\* shift_time is called at most MaxShifts times in a behaviour.
MaxShifts == 1

\* Pointer coordinates are 0..MaxCoord.
MaxCoord == 2

Threads == {"t1", "t2"}

NoThread == "none"

\* The listeners that set_listener may install; NoListener is nullptr.
Listeners == {"L", "M"}

NoListener == "null"

\* The arguments of set_parameters: <<noise, activity, idle, sensitivity>>,
\* the thresholds in milliseconds.
ParamChoices == { <<1000, 1000, 1000, 2>>, <<1000, 0, 1000, 2>> }

\* The same with the sensitivity varied, where the pointer moves.
PointerParams == { <<1000, 0, 1000, 1>>, <<1000, 1000, 1000, 2>> }

\* The arguments of set_parameters where the thresholds are read back:
\* 2147483 ms is the longest time whose microseconds fit int, 2147484 ms the
\* shortest whose microseconds do not.
ParamInputs == { <<1000, 0, 5000, 2>>, <<2147483, 1000, 1000, 0>>,
                 <<3000000, 2147484, 1000, 5>> }

\* The arguments of shift_time, in seconds.
ShiftChoices == { 1, -1, 3600 }

Coords == 0..MaxCoord

WheelChoices == { 0, 1 }


(* ----------------------------- constants ------------------------------ *)

\* Microseconds per unit of model time.
UsecPerUnit == 2^3

G_USEC_PER_SEC == 1000000 \div UsecPerUnit

\* The literal 1000 (microseconds per millisecond) of set/get_parameters.
UsecPerMsec == 1000 \div UsecPerUnit

\* The range of int, 2^32 microseconds wide: 2^32 / UsecPerUnit.
IntRange == 2^29

ACTIVITY_IDLE == "Idle"

ACTIVITY_NOISE == "Noise"

ACTIVITY_ACTIVE == "Active"

ACTIVITY_SUSPENDED == "Suspended"

(* ------------------------------- state -------------------------------- *)

VARIABLES
    activity_state,     \* the monitor's fields
    noise_threshold,
    activity_threshold,
    idle_threshold,
    sensitivity,
    first_action_time,
    last_action_time,
    prev_x,
    prev_y,
    button_is_pressed,
    listener,
    lock,               \* [owner, count]: the re-entrant Mutex
    clock,              \* g_get_real_time()
    pc,                 \* each thread's position
    entry,              \* each thread's outermost operation
    frame,              \* each thread's arguments and locals
    shifts,             \* history: the number of shift_time calls so far
    run,                \* history: the burst of actions since the last Idle
    declined            \* history: listeners that returned false and were not set again

fields == << activity_state, noise_threshold, activity_threshold, idle_threshold,
             sensitivity, first_action_time, last_action_time, prev_x, prev_y,
             button_is_pressed, listener >>

vars == << activity_state, noise_threshold, activity_threshold, idle_threshold,
           sensitivity, first_action_time, last_action_time, prev_x, prev_y,
           button_is_pressed, listener, lock, clock, pc, entry, frame,
           shifts, run, declined >>

(* ------------------------------ helpers ------------------------------- *)

Abs(v) == IF v < 0 THEN -v ELSE v

\* A value of int width: v wrapped into [-2^31, 2^31) microseconds.
WrapInt(v) == ((v + IntRange \div 2) % IntRange) - IntRange \div 2

\* int * int.  A product outside int is signed overflow: the build either
\* keeps the low 32 bits or computes in the wider register.
IntMul(a, b) == { a * b, WrapInt(a * b) }

\* a / b of C++ for b > 0: the quotient truncated toward zero.
IntDiv(a, b) == IF a >= 0 THEN a \div b ELSE -((-a) \div b)

\* A thread's arguments (a) and locals.  Of the code: d of shift_time and l of
\* call_listener.  Of the call's history: st, the activity_state the call found
\* when it took the lock; out, the activity_state it left when it released the
\* lock; pub and ret, the values get_current_state published and returned; n,
\* the number of runs of action_notify's body; late, whether the listener was
\* invoked after it had declined.
NoFrame == [ a |-> <<>>, st |-> ACTIVITY_IDLE, out |-> ACTIVITY_IDLE,
             pub |-> ACTIVITY_IDLE, ret |-> ACTIVITY_IDLE, l |-> NoListener,
             d |-> 0, n |-> 0, late |-> FALSE ]

\* The frame of a call that found activity_state and left it as left.
Found(left) == [ NoFrame EXCEPT !.st = activity_state, !.out = left ]

NoRun == [ phase |-> "off", first |-> 0, last |-> 0 ]

\* lock.lock() returns for thread t: the Mutex is free or t owns it.
CanLock(t) == lock.owner \in { NoThread, t }

Acquired(t) == [ owner |-> t, count |-> lock.count + 1 ]

Released == IF lock.count = 1 THEN [ owner |-> NoThread, count |-> 0 ]
            ELSE [ lock EXCEPT !.count = @ - 1 ]

\* The number of times thread t holds the lock.
HoldCount(t) == IF lock.owner = t THEN lock.count ELSE 0

Goto(t, label) == pc' = [ pc EXCEPT ![t] = label ]

\* Thread t returns from its outermost operation.
Return(t) ==
    /\ pc' = [ pc EXCEPT ![t] = "idle" ]
    /\ entry' = [ entry EXCEPT ![t] = "none" ]
    /\ frame' = [ frame EXCEPT ![t] = NoFrame ]

\* Thread t enters operation op with frame fr and runs to label.
Enter(t, op, label, fr) ==
    /\ pc[t] = "idle"
    /\ pc' = [ pc EXCEPT ![t] = label ]
    /\ entry' = [ entry EXCEPT ![t] = op ]
    /\ frame' = [ frame EXCEPT ![t] = fr ]

Args(a) == [ NoFrame EXCEPT !.a = a ]

(* ------------------------------- Init --------------------------------- *)

\* The monitor as constructed.  sensitivity, prev_x and prev_y are set outside
\* this file: the monitor starts with any sensitivity that params names and
\* with the pointer anywhere in coords.
Start(coords, params) ==
    /\ activity_state = ACTIVITY_IDLE
    /\ noise_threshold = 1 * G_USEC_PER_SEC
    /\ activity_threshold = 2 * G_USEC_PER_SEC
    /\ idle_threshold = 5 * G_USEC_PER_SEC
    /\ sensitivity \in { p[4] : p \in params }
    /\ first_action_time = 0
    /\ last_action_time = 0
    /\ prev_x \in coords
    /\ prev_y \in coords
    /\ button_is_pressed = FALSE
    /\ listener = NoListener
    /\ lock = [ owner |-> NoThread, count |-> 0 ]
    /\ clock = G_USEC_PER_SEC
    /\ pc = [ t \in Threads |-> "idle" ]
    /\ entry = [ t \in Threads |-> "none" ]
    /\ frame = [ t \in Threads |-> NoFrame ]
    /\ shifts = 0
    /\ run = NoRun
    /\ declined = {}

\* g_get_real_time() advances.
Tick ==
    /\ clock < MaxTime * G_USEC_PER_SEC
    /\ clock' = clock + G_USEC_PER_SEC
    /\ UNCHANGED << fields, lock, pc, entry, frame, shifts, run, declined >>


(* ----------------------- administrative controls ---------------------- *)

SuspendValue == ACTIVITY_SUSPENDED

ResumeValue == ACTIVITY_IDLE

\* suspend(): lock; activity_state = ACTIVITY_SUSPENDED; unlock.
Suspend(t) ==
    /\ CanLock(t)
    /\ Enter(t, "suspend", "publish", Found(SuspendValue))
    /\ activity_state' = SuspendValue
    /\ run' = NoRun
    /\ UNCHANGED << noise_threshold, activity_threshold, idle_threshold, sensitivity,
                    first_action_time, last_action_time, prev_x, prev_y,
                    button_is_pressed, listener, lock, clock, shifts, declined >>

\* resume(): lock; activity_state = ACTIVITY_IDLE; unlock.
Resume(t) ==
    /\ CanLock(t)
    /\ Enter(t, "resume", "publish", Found(ResumeValue))
    /\ activity_state' = ResumeValue
    /\ run' = NoRun
    /\ UNCHANGED << noise_threshold, activity_threshold, idle_threshold, sensitivity,
                    first_action_time, last_action_time, prev_x, prev_y,
                    button_is_pressed, listener, lock, clock, shifts, declined >>

\* force_idle without its guard.
ForceIdleAlways == TRUE

\* The guard of force_idle.
ForceIdleApplies == activity_state # ACTIVITY_SUSPENDED

\* force_idle(): lock; if not suspended, Idle and last_action_time = 0; unlock.
ForceIdle(t) ==
    /\ CanLock(t)
    /\ IF ForceIdleApplies
          THEN /\ activity_state' = ACTIVITY_IDLE
               /\ last_action_time' = 0
          ELSE UNCHANGED << activity_state, last_action_time >>
    /\ Enter(t, "force_idle", "publish", Found(activity_state'))
    /\ run' = NoRun
    /\ UNCHANGED << noise_threshold, activity_threshold, idle_threshold, sensitivity,
                    first_action_time, prev_x, prev_y, button_is_pressed, listener,
                    lock, clock, shifts, declined >>

\* activity_state.publish() and the return of suspend, resume and force_idle.
Publish(t) ==
    /\ pc[t] = "publish"
    /\ Return(t)
    /\ UNCHANGED << fields, lock, clock, shifts, run, declined >>

\* The test of get_current_state on tv = now - last_action_time.
IdleExpired(tv) == tv > idle_threshold

\* get_current_state(), the locked part: Active lapses to Idle.
GetCurrentState(t) ==
    /\ CanLock(t)
    /\ LET lapse == activity_state = ACTIVITY_ACTIVE /\ IdleExpired(clock - last_action_time)
       IN /\ activity_state' = IF lapse THEN ACTIVITY_IDLE ELSE activity_state
          /\ run' = IF run.phase = "active" /\ clock - run.last > idle_threshold
                       THEN [ NoRun EXCEPT !.phase = "idle" ]
                       ELSE run
    /\ Enter(t, "get_current_state", "gcs_publish", Found(activity_state'))
    /\ UNCHANGED << noise_threshold, activity_threshold, idle_threshold, sensitivity,
                    first_action_time, last_action_time, prev_x, prev_y,
                    button_is_pressed, listener, lock, clock, shifts, declined >>

\* get_current_state(): activity_state.publish(), after the unlock.
GcsPublish(t) ==
    /\ pc[t] = "gcs_publish"
    /\ frame' = [ frame EXCEPT ![t].pub = activity_state ]
    /\ Goto(t, "gcs_return")
    /\ UNCHANGED << fields, lock, clock, entry, shifts, run, declined >>

\* get_current_state(): return activity_state, read again.
GcsReturn(t) ==
    /\ pc[t] = "gcs_return"
    /\ frame' = [ frame EXCEPT ![t].ret = activity_state ]
    /\ Goto(t, "gcs_returned")
    /\ UNCHANGED << fields, lock, clock, entry, shifts, run, declined >>

\* The caller of get_current_state has its value.
GcsReturned(t) ==
    /\ pc[t] = "gcs_returned"
    /\ Return(t)
    /\ UNCHANGED << fields, lock, clock, shifts, run, declined >>

\* set_parameters(noise, activity, idle, sensitivity) writes five fields in
\* turn and takes no lock.
SetParameters(t, params) ==
    \E p \in params :
        /\ Enter(t, "set_parameters", "sp_activity", Args(p))
        /\ noise_threshold' \in IntMul(p[1], UsecPerMsec)
        /\ run' = NoRun
        /\ UNCHANGED << activity_state, activity_threshold, idle_threshold, sensitivity,
                        first_action_time, last_action_time, prev_x, prev_y,
                        button_is_pressed, listener, lock, clock, 
                        shifts, declined >>

SpActivity(t) ==
    /\ pc[t] = "sp_activity"
    /\ activity_threshold' \in IntMul(frame[t].a[2], UsecPerMsec)
    /\ Goto(t, "sp_idle")
    /\ run' = NoRun
    /\ UNCHANGED << activity_state, noise_threshold, idle_threshold, sensitivity,
                    first_action_time, last_action_time, prev_x, prev_y,
                    button_is_pressed, listener, lock, clock, entry, frame,
                    shifts, declined >>

SpIdle(t) ==
    /\ pc[t] = "sp_idle"
    /\ idle_threshold' \in IntMul(frame[t].a[3], UsecPerMsec)
    /\ Goto(t, "sp_sensitivity")
    /\ run' = NoRun
    /\ UNCHANGED << activity_state, noise_threshold, activity_threshold, sensitivity,
                    first_action_time, last_action_time, prev_x, prev_y,
                    button_is_pressed, listener, lock, clock, entry, frame,
                    shifts, declined >>

SpSensitivity(t) ==
    /\ pc[t] = "sp_sensitivity"
    /\ sensitivity' = frame[t].a[4]
    /\ Goto(t, "sp_state")
    /\ run' = NoRun
    /\ UNCHANGED << activity_state, noise_threshold, activity_threshold, idle_threshold,
                    first_action_time, last_action_time, prev_x, prev_y,
                    button_is_pressed, listener, lock, clock, entry, frame,
                    shifts, declined >>

\* "The easy way out": activity_state = ACTIVITY_IDLE.
SpState(t) ==
    /\ pc[t] = "sp_state"
    /\ activity_state' = ACTIVITY_IDLE
    /\ Return(t)
    /\ run' = NoRun
    /\ UNCHANGED << noise_threshold, activity_threshold, idle_threshold, sensitivity,
                    first_action_time, last_action_time, prev_x, prev_y,
                    button_is_pressed, listener, lock, clock, shifts, declined >>

\* A threshold in milliseconds, as get_parameters stores it in its int
\* argument.  Every threshold the monitor holds is less than 2^31 * 1000 us in
\* size, so the quotient is in int and the conversion to int keeps it.
Msec(threshold) == IntDiv(threshold, UsecPerMsec)

\* get_parameters(noise, activity, idle, sensitivity) reads four fields in
\* turn and takes no lock; a holds the values stored so far.
GetParameters(t) ==
    /\ Enter(t, "get_parameters", "gp_activity", Args(<< Msec(noise_threshold) >>))
    /\ UNCHANGED << fields, lock, clock, shifts, run, declined >>

GpActivity(t) ==
    /\ pc[t] = "gp_activity"
    /\ frame' = [ frame EXCEPT ![t].a = Append(@, Msec(activity_threshold)) ]
    /\ Goto(t, "gp_idle")
    /\ UNCHANGED << fields, lock, clock, entry, shifts, run, declined >>

GpIdle(t) ==
    /\ pc[t] = "gp_idle"
    /\ frame' = [ frame EXCEPT ![t].a = Append(@, Msec(idle_threshold)) ]
    /\ Goto(t, "gp_sensitivity")
    /\ UNCHANGED << fields, lock, clock, entry, shifts, run, declined >>

GpSensitivity(t) ==
    /\ pc[t] = "gp_sensitivity"
    /\ frame' = [ frame EXCEPT ![t].a = Append(@, sensitivity) ]
    /\ Goto(t, "gp_returned")
    /\ UNCHANGED << fields, lock, clock, entry, shifts, run, declined >>

\* The caller of get_parameters has its values.
GpReturned(t) ==
    /\ pc[t] = "gp_returned"
    /\ Return(t)
    /\ UNCHANGED << fields, lock, clock, shifts, run, declined >>

\* shift_time(delta): d = delta * G_USEC_PER_SEC, computed in int before the lock.
ShiftTime(t) ==
    \E delta \in ShiftChoices :
        \E d \in IntMul(delta, G_USEC_PER_SEC) :
            /\ shifts < MaxShifts
            /\ shifts' = shifts + 1
            /\ Enter(t, "shift_time", "shift_lock", [ Args(<< delta >>) EXCEPT !.d = d ])
            /\ UNCHANGED << fields, lock, clock, run, declined >>

\* A timestamp moved by d, unless it is unset.
Shifted(time, d) == IF time # 0 THEN time + d ELSE time

\* shift_time, the locked part.
ShiftLocked(t) ==
    /\ pc[t] = "shift_lock"
    /\ CanLock(t)
    /\ last_action_time' = Shifted(last_action_time, frame[t].d)
    /\ first_action_time' = Shifted(first_action_time, frame[t].d)
    /\ Return(t)
    /\ run' = NoRun
    /\ UNCHANGED << activity_state, noise_threshold, activity_threshold, idle_threshold,
                    sensitivity, prev_x, prev_y, button_is_pressed, listener, lock,
                    clock, shifts, declined >>

\* set_listener(l): lock; listener = l; unlock.
SetListener(t) ==
    \E l \in Listeners \cup { NoListener } :
        /\ pc[t] = "idle"
        /\ CanLock(t)
        /\ listener' = l
        /\ declined' = {}
        /\ UNCHANGED << activity_state, noise_threshold, activity_threshold,
                        idle_threshold, sensitivity, first_action_time, last_action_time,
                        prev_x, prev_y, button_is_pressed, lock, clock, pc,
                        entry, frame, shifts, run >>

(* --------------------------- input callbacks -------------------------- *)

\* The generic action callback: action_notify() called by the input monitor.
ActionNotify(t) ==
    /\ Enter(t, "action_notify", "an_lock", NoFrame)
    /\ UNCHANGED << fields, lock, clock, shifts, run, declined >>

\* keyboard_notify(repeat): lock; action_notify(); unlock.
KeyboardNotify(t) ==
    \E repeat \in BOOLEAN :
        /\ CanLock(t)
        /\ lock' = Acquired(t)
        /\ Enter(t, "keyboard_notify", "an_lock", NoFrame)
        /\ UNCHANGED << fields, clock, shifts, run, declined >>

\* button_notify(is_press): lock; the flag; action_notify() on a press.
ButtonNotify(t) ==
    \E is_press \in BOOLEAN :
        /\ CanLock(t)
        /\ lock' = Acquired(t)
        /\ button_is_pressed' = is_press
        /\ Enter(t, "button_notify", IF is_press THEN "an_lock" ELSE "outer_unlock",
                 Args(<< is_press >>))
        /\ UNCHANGED << activity_state, noise_threshold, activity_threshold,
                        idle_threshold, sensitivity, first_action_time, last_action_time,
                        prev_x, prev_y, listener, clock, shifts, run,
                        declined >>

\* mouse_notify with > for >=.
MouseMovedStrict(delta_x, delta_y, wheel_delta) ==
    \/ Abs(delta_x) > sensitivity
    \/ Abs(delta_y) > sensitivity
    \/ wheel_delta # 0
    \/ button_is_pressed

\* mouse_notify without the held button.
MouseMovedNoButton(delta_x, delta_y, wheel_delta) ==
    \/ Abs(delta_x) >= sensitivity
    \/ Abs(delta_y) >= sensitivity
    \/ wheel_delta # 0

\* The test of mouse_notify.
MouseMoved(delta_x, delta_y, wheel_delta) ==
    \/ Abs(delta_x) >= sensitivity
    \/ Abs(delta_y) >= sensitivity
    \/ wheel_delta # 0
    \/ button_is_pressed

\* mouse_notify(x, y, wheel_delta): lock; the deltas; prev_x, prev_y; action_notify()
\* when the pointer moved.
MouseNotify(t, coords) ==
    \E x \in coords, y \in coords, wheel_delta \in WheelChoices :
        LET delta_x == x - prev_x
            delta_y == y - prev_y
        IN /\ CanLock(t)
           /\ lock' = Acquired(t)
           /\ prev_x' = x
           /\ prev_y' = y
           /\ Enter(t, "mouse_notify",
                    IF MouseMoved(delta_x, delta_y, wheel_delta) THEN "an_lock"
                    ELSE "outer_unlock",
                    Args(<< x, y, wheel_delta >>))
           /\ UNCHANGED << activity_state, noise_threshold, activity_threshold,
                           idle_threshold, sensitivity, first_action_time,
                           last_action_time, button_is_pressed, listener, clock,
                           shifts, run, declined >>

\* action_notify(): lock; switch (activity_state).  The arguments of the
\* caller are used no more.
AnLock(t) ==
    /\ pc[t] = "an_lock"
    /\ CanLock(t)
    /\ lock' = Acquired(t)
    /\ frame' = [ frame EXCEPT ![t] = Found(activity_state) ]
    /\ Goto(t, "an_body")
    /\ UNCHANGED << fields, clock, entry, shifts, run, declined >>

\* The Noise case with >= for >.
NoiseExpiredEarly(tv) == tv >= noise_threshold

\* The test of the Noise case on tv = now - last_action_time.
NoiseExpired(tv) == tv > noise_threshold

\* The test of the Noise case on tv = now - first_action_time.
ActivityReached(tv) == tv >= activity_threshold

\* The switch without its default case: Suspended falls into the Idle case.
ActionStateNoDefault(st, now) ==
    CASE st \in { ACTIVITY_IDLE, ACTIVITY_SUSPENDED } ->
            IF activity_threshold = 0 THEN ACTIVITY_ACTIVE ELSE ACTIVITY_NOISE
      [] st = ACTIVITY_NOISE ->
            IF /\ ~NoiseExpired(now - last_action_time)
               /\ ActivityReached(now - first_action_time)
            THEN ACTIVITY_ACTIVE
            ELSE activity_state
      [] OTHER -> activity_state

\* The Noise case without the test of the gap: a long enough burst promotes.
ActionStatePromotes(st, now) ==
    CASE st = ACTIVITY_IDLE ->
            IF activity_threshold = 0 THEN ACTIVITY_ACTIVE ELSE ACTIVITY_NOISE
      [] st = ACTIVITY_NOISE ->
            IF ActivityReached(now - first_action_time)
            THEN ACTIVITY_ACTIVE
            ELSE activity_state
      [] OTHER -> activity_state

\* With a case for Active: an action after a gap restarts in Noise.
ActionStateRestarts(st, now) ==
    CASE st = ACTIVITY_IDLE ->
            IF activity_threshold = 0 THEN ACTIVITY_ACTIVE ELSE ACTIVITY_NOISE
      [] st = ACTIVITY_NOISE ->
            IF /\ ~NoiseExpired(now - last_action_time)
               /\ ActivityReached(now - first_action_time)
            THEN ACTIVITY_ACTIVE
            ELSE activity_state
      [] st = ACTIVITY_ACTIVE ->
            IF NoiseExpired(now - last_action_time) THEN ACTIVITY_NOISE
            ELSE activity_state
      [] OTHER -> activity_state

\* The state an action at time now leaves, from state st.
ActionState(st, now) ==
    CASE st = ACTIVITY_IDLE ->
            IF activity_threshold = 0 THEN ACTIVITY_ACTIVE ELSE ACTIVITY_NOISE
      [] st = ACTIVITY_NOISE ->
            IF /\ ~NoiseExpired(now - last_action_time)
               /\ ActivityReached(now - first_action_time)
            THEN ACTIVITY_ACTIVE
            ELSE activity_state
      [] OTHER -> activity_state

\* The Idle case without first_action_time = now.
ActionFirstStale(st, now) ==
    CASE st = ACTIVITY_NOISE ->
            IF NoiseExpired(now - last_action_time) THEN now ELSE first_action_time
      [] OTHER -> first_action_time

\* The first_action_time an action at time now leaves, from state st.
ActionFirst(st, now) ==
    CASE st = ACTIVITY_IDLE -> now
      [] st = ACTIVITY_NOISE ->
            IF NoiseExpired(now - last_action_time) THEN now ELSE first_action_time
      [] OTHER -> first_action_time

\* The burst of actions that the action at time now continues or starts.
RunAfter(st, now) ==
    IF run.phase \in { "noise", "active" }
    THEN IF now - run.last <= noise_threshold
         THEN [ run EXCEPT !.last = now,
                           !.phase = IF run.phase = "active"
                                        \/ now - run.first >= activity_threshold
                                     THEN "active" ELSE "noise" ]
         ELSE NoRun
    ELSE IF st = ACTIVITY_IDLE /\ activity_state = ACTIVITY_IDLE /\ activity_threshold > 0
         THEN [ phase |-> "noise", first |-> now, last |-> now ]
         ELSE NoRun

\* action_notify(): the cases of the switch; last_action_time = now; unlock.
\* now = g_get_real_time() is read here, not before the switch: the thread
\* holds the lock from there to here and no step in between reads the clock,
\* so every state this step can leave is left either way.
AnBody(t) ==
    /\ pc[t] = "an_body"
    /\ activity_state' = ActionState(frame[t].st, clock)
    /\ first_action_time' = ActionFirst(frame[t].st, clock)
    /\ last_action_time' = clock
    /\ lock' = Released
    /\ frame' = [ frame EXCEPT ![t].n = @ + 1, ![t].out = activity_state' ]
    /\ run' = RunAfter(frame[t].st, clock)
    /\ Goto(t, "cl_lock")
    /\ UNCHANGED << noise_threshold, activity_threshold, idle_threshold, sensitivity,
                    prev_x, prev_y, button_is_pressed, listener, clock,
                    entry, shifts, declined >>

\* After call_listener: action_notify returns, to its caller if it has one.
AfterListener(t) ==
    IF entry[t] = "action_notify"
    THEN Return(t)
    ELSE /\ Goto(t, "outer_unlock")
         /\ UNCHANGED << entry, frame >>

\* call_listener(): lock; l = listener; unlock; nothing more when l is nullptr.
ClLock(t) ==
    /\ pc[t] = "cl_lock"
    /\ CanLock(t)
    /\ IF listener = NoListener
       THEN AfterListener(t)
       ELSE /\ Goto(t, "cl_call")
            /\ frame' = [ frame EXCEPT ![t].l = listener ]
            /\ UNCHANGED entry
    /\ UNCHANGED << fields, lock, clock, shifts, run, declined >>

\* call_listener(): l->action_notify() is entered.
ClCall(t) ==
    /\ pc[t] = "cl_call"
    /\ frame' = [ frame EXCEPT ![t].late = frame[t].l \in declined ]
    /\ Goto(t, "in_listener")
    /\ UNCHANGED << fields, lock, clock, entry, shifts, run, declined >>

\* The listener returns true (keep notifying) or false (unsubscribe).
ListenerReturns(t) ==
    \E again \in BOOLEAN :
        /\ pc[t] = "in_listener"
        /\ IF again
           THEN /\ AfterListener(t)
                /\ UNCHANGED declined
           ELSE /\ Goto(t, "cl_clear")
                /\ declined' = declined \cup { frame[t].l }
                /\ UNCHANGED << entry, frame >>
        /\ UNCHANGED << fields, lock, clock, shifts, run >>

\* The listener calls get_current_state() from its callback, on the thread
\* that dispatches to it: the part under the lock, which the thread may hold
\* already.
ListenerQuery(t) ==
    /\ pc[t] = "in_listener"
    /\ CanLock(t)
    /\ LET lapse == activity_state = ACTIVITY_ACTIVE /\ IdleExpired(clock - last_action_time)
       IN /\ activity_state' = IF lapse THEN ACTIVITY_IDLE ELSE activity_state
          /\ run' = IF run.phase = "active" /\ clock - run.last > idle_threshold
                       THEN [ NoRun EXCEPT !.phase = "idle" ]
                       ELSE run
    /\ Goto(t, "in_query")
    /\ UNCHANGED << noise_threshold, activity_threshold, idle_threshold, sensitivity,
                    first_action_time, last_action_time, prev_x, prev_y,
                    button_is_pressed, listener, lock, clock, entry, frame,
                    shifts, declined >>

\* That get_current_state() publishes and returns to the listener.
QueryReturns(t) ==
    /\ pc[t] = "in_query"
    /\ Goto(t, "in_listener")
    /\ UNCHANGED << fields, lock, clock, entry, frame, shifts, run, declined >>

\* call_listener(): lock; listener = nullptr; unlock.
ClClear(t) ==
    /\ pc[t] = "cl_clear"
    /\ CanLock(t)
    /\ listener' = NoListener
    /\ AfterListener(t)
    /\ UNCHANGED << activity_state, noise_threshold, activity_threshold, idle_threshold,
                    sensitivity, first_action_time, last_action_time, prev_x, prev_y,
                    button_is_pressed, lock, clock, shifts, run, declined >>

\* mouse_notify, button_notify and keyboard_notify without their lock.unlock().
OuterUnlockMissing(t) ==
    /\ pc[t] = "outer_unlock"
    /\ Return(t)
    /\ UNCHANGED << fields, lock, clock, shifts, run, declined >>

\* The lock.unlock() that ends mouse_notify, button_notify and keyboard_notify.
OuterUnlock(t) ==
    /\ pc[t] = "outer_unlock"
    /\ lock' = Released
    /\ Return(t)
    /\ UNCHANGED << fields, clock, shifts, run, declined >>

(* ---------------------------- specifications -------------------------- *)

\* The pointer rests at one place: mouse_notify reports the wheel alone.
Still == { 0 }

\* The steps inside action_notify and its callers, with no listener set.
ActionSteps(t) ==
    \/ AnLock(t)
    \/ AnBody(t)
    \/ ClLock(t)
    \/ OuterUnlock(t)

\* The steps of call_listener when a listener is set.
ListenerSteps(t) ==
    \/ ClCall(t)
    \/ ListenerReturns(t)
    \/ ClClear(t)

\* The state machine: every thread calls the administrative controls, the
\* query, action_notify and keyboard_notify as the clock advances; no listener
\* is set, the pointer and the buttons rest and the clock is never shifted.
Init == Start(Still, ParamChoices)

Next ==
    \/ Tick
    \/ \E t \in Threads : Suspend(t)
    \/ \E t \in Threads : Resume(t)
    \/ \E t \in Threads : ForceIdle(t)
    \/ \E t \in Threads : Publish(t)
    \/ \E t \in Threads : GetCurrentState(t)
    \/ \E t \in Threads : GcsPublish(t)
    \/ \E t \in Threads : GcsReturn(t)
    \/ \E t \in Threads : GcsReturned(t)
    \/ \E t \in Threads : SetParameters(t, ParamChoices)
    \/ \E t \in Threads : SpActivity(t)
    \/ \E t \in Threads : SpIdle(t)
    \/ \E t \in Threads : SpSensitivity(t)
    \/ \E t \in Threads : SpState(t)
    \/ \E t \in Threads : ActionNotify(t)
    \/ \E t \in Threads : KeyboardNotify(t)
    \/ \E t \in Threads : ActionSteps(t)

Spec == Init /\ [][Next]_vars

\* The input callbacks: every thread reports actions, keys, buttons and a
\* pointer that moves over Coords, between calls of suspend, resume and
\* set_parameters; the clock stands still and no listener is set.
InitInput == Start(Coords, PointerParams)

NextInput ==
    \/ \E t \in Threads : Suspend(t)
    \/ \E t \in Threads : Resume(t)
    \/ \E t \in Threads : Publish(t)
    \/ \E t \in Threads : SetParameters(t, PointerParams)
    \/ \E t \in Threads : SpActivity(t)
    \/ \E t \in Threads : SpIdle(t)
    \/ \E t \in Threads : SpSensitivity(t)
    \/ \E t \in Threads : SpState(t)
    \/ \E t \in Threads : ActionNotify(t)
    \/ \E t \in Threads : KeyboardNotify(t)
    \/ \E t \in Threads : ButtonNotify(t)
    \/ \E t \in Threads : MouseNotify(t, Coords)
    \/ \E t \in Threads : ActionSteps(t)

SpecInput == InitInput /\ [][NextInput]_vars

\* The listener: every thread reports input and sets the listener, which
\* accepts or declines each notification; the clock stands still.
InitListener == Start(Still, ParamChoices)

NextListener ==
    \/ \E t \in Threads : SetListener(t)
    \/ \E t \in Threads : ActionNotify(t)
    \/ \E t \in Threads : KeyboardNotify(t)
    \/ \E t \in Threads : ButtonNotify(t)
    \/ \E t \in Threads : MouseNotify(t, Still)
    \/ \E t \in Threads : ActionSteps(t)
    \/ \E t \in Threads : ListenerSteps(t)

SpecListener == InitListener /\ [][NextListener]_vars

\* The shifted clock: every thread reports actions and keys, forces idle,
\* queries and shifts the timestamps as the clock advances.
InitShift == Start(Still, ParamChoices)

NextShift ==
    \/ Tick
    \/ \E t \in Threads : ForceIdle(t)
    \/ \E t \in Threads : Publish(t)
    \/ \E t \in Threads : GetCurrentState(t)
    \/ \E t \in Threads : GcsPublish(t)
    \/ \E t \in Threads : GcsReturn(t)
    \/ \E t \in Threads : GcsReturned(t)
    \/ \E t \in Threads : ShiftTime(t)
    \/ \E t \in Threads : ShiftLocked(t)
    \/ \E t \in Threads : ActionNotify(t)
    \/ \E t \in Threads : KeyboardNotify(t)
    \/ \E t \in Threads : ActionSteps(t)

SpecShift == InitShift /\ [][NextShift]_vars

\* The parameters: every thread sets the parameters and reads them back; the
\* clock stands still and no input arrives.
InitParams == Start(Still, ParamInputs)

NextParams ==
    \/ \E t \in Threads : SetParameters(t, ParamInputs)
    \/ \E t \in Threads : SpActivity(t)
    \/ \E t \in Threads : SpIdle(t)
    \/ \E t \in Threads : SpSensitivity(t)
    \/ \E t \in Threads : SpState(t)
    \/ \E t \in Threads : GetParameters(t)
    \/ \E t \in Threads : GpActivity(t)
    \/ \E t \in Threads : GpIdle(t)
    \/ \E t \in Threads : GpSensitivity(t)
    \/ \E t \in Threads : GpReturned(t)

SpecParams == InitParams /\ [][NextParams]_vars

\* The steps by which thread t carries on an operation it has entered, the
\* return of the listener apart.
Progress(t) ==
    \/ ActionSteps(t)
    \/ ClCall(t)
    \/ ClClear(t)
    \/ QueryReturns(t)
    \/ GcsPublish(t)
    \/ GcsReturn(t)
    \/ GcsReturned(t)

\* Fair scheduling: a thread that can again and again carry on its operation
\* does, also where it waits for the lock; and the listener's callback
\* returns.
Fairness ==
    \A t \in Threads :
        /\ SF_vars(Progress(t))
        /\ SF_vars(ListenerReturns(t))

\* The listener under fair scheduling: every thread reports input, queries
\* and sets the listener, which may query the state from its callback before
\* it accepts or declines; the clock stands still.
InitLive == Start(Still, ParamChoices)

NextLive ==
    \/ \E t \in Threads : SetListener(t)
    \/ \E t \in Threads : GetCurrentState(t)
    \/ \E t \in Threads : GcsPublish(t)
    \/ \E t \in Threads : GcsReturn(t)
    \/ \E t \in Threads : GcsReturned(t)
    \/ \E t \in Threads : ActionNotify(t)
    \/ \E t \in Threads : KeyboardNotify(t)
    \/ \E t \in Threads : ButtonNotify(t)
    \/ \E t \in Threads : MouseNotify(t, Still)
    \/ \E t \in Threads : ActionSteps(t)
    \/ \E t \in Threads : ListenerSteps(t)
    \/ \E t \in Threads : ListenerQuery(t)
    \/ \E t \in Threads : QueryReturns(t)

SpecLive == InitLive /\ [][NextLive]_vars /\ Fairness

(* ------------------------------- claims ------------------------------- *)

\* Thread t takes a step.
Moved(t) == pc'[t] # pc[t]

\* Thread t calls operation op.
Calls(t, op) == entry[t] = "none" /\ entry'[t] = op

InputCallbacks == { "action_notify", "mouse_notify", "button_notify", "keyboard_notify" }

\* C1: from Idle with activity_threshold > 0, while actions follow one another
\* within noise_threshold and no administrative call intervenes, the state is
\* Noise until the first action at least activity_threshold after the first
\* one, Active from that action on, and Idle once a query finds the last
\* action more than idle_threshold ago.  run follows the actions and the
\* queries by their times alone.
C1_BurstBecomesActive ==
    /\ run.phase = "noise" => activity_state = ACTIVITY_NOISE
    /\ run.phase = "active" => activity_state = ACTIVITY_ACTIVE
    /\ run.phase = "idle" => activity_state = ACTIVITY_IDLE

\* The example of C1: thresholds as constructed (noise 1 s, activity 2 s) and
\* a burst that has lasted 2 s is Active.
C1_Witness ==
    /\ run.phase = "active"
    /\ activity_threshold = 2 * G_USEC_PER_SEC
    /\ run.last - run.first = 2 * G_USEC_PER_SEC
    /\ last_action_time - first_action_time = 2 * G_USEC_PER_SEC

\* C2: suspend leaves Suspended from any state; a step of an input callback
\* taken in Suspended leaves Suspended; resume leaves Idle from any state and
\* both timestamps as they were.
C2_SuspendResume ==
    [][ \A t \in Threads :
          /\ Calls(t, "suspend") => activity_state' = ACTIVITY_SUSPENDED
          /\ Calls(t, "resume") =>
                /\ activity_state' = ACTIVITY_IDLE
                /\ UNCHANGED << first_action_time, last_action_time >>
          /\ ( /\ Moved(t)
               /\ activity_state = ACTIVITY_SUSPENDED
               /\ entry[t] \in InputCallbacks \/ entry'[t] \in InputCallbacks )
             => activity_state' = ACTIVITY_SUSPENDED ]_vars

\* An action reported by the pointer has run its course in Suspended.
C2_Witness ==
    \E t \in Threads :
        /\ entry[t] = "mouse_notify"
        /\ pc[t] = "cl_lock"
        /\ frame[t].st = ACTIVITY_SUSPENDED
        /\ frame[t].n = 1
        /\ activity_state = ACTIVITY_SUSPENDED

\* C3: a step of any operation but resume taken in Suspended leaves Suspended.
C3_SuspendedUntilResume ==
    [][ ( /\ activity_state = ACTIVITY_SUSPENDED
          /\ ~ \E t \in Threads : Calls(t, "resume") )
        => activity_state' = ACTIVITY_SUSPENDED ]_vars

\* C4: a thread inside the listener's callback holds the lock zero times.
C4_ListenerCalledUnlocked ==
    \A t \in Threads : pc[t] = "in_listener" => HoldCount(t) = 0

\* C5: a listener that has returned false is not invoked again before
\* set_listener is called.
C5_NoCallAfterDecline ==
    \A t \in Threads : pc[t] = "in_listener" => ~frame[t].late

\* C6: get_current_state publishes and returns the activity_state it left
\* when it released the lock.
C6_ReturnsComputedState ==
    \A t \in Threads :
        pc[t] = "gcs_returned" =>
            /\ frame[t].pub = frame[t].out
            /\ frame[t].ret = frame[t].out

\* The positions from which a thread next reads or writes activity_state or a
\* threshold.
AccessPositions == { "an_body", "sp_activity", "sp_idle", "sp_state" }

\* C7: a thread about to read or write activity_state or a threshold holds
\* the lock.
C7_AccessUnderLock ==
    \A t \in Threads : pc[t] \in AccessPositions => HoldCount(t) > 0

\* C8: force_idle in Suspended changes neither activity_state nor
\* last_action_time; in any other state it leaves Idle and last_action_time 0;
\* first_action_time is as it was in both cases.
C8_ForceIdle ==
    [][ \A t \in Threads :
          Calls(t, "force_idle") =>
              /\ IF activity_state = ACTIVITY_SUSPENDED
                 THEN UNCHANGED << activity_state, last_action_time >>
                 ELSE activity_state' = ACTIVITY_IDLE /\ last_action_time' = 0
              /\ UNCHANGED first_action_time ]_vars

\* force_idle has found Active on one thread and Suspended on the other.
C8_Witness ==
    \E t, u \in Threads :
        /\ entry[t] = "force_idle" /\ entry[u] = "force_idle"
        /\ frame[t].st = ACTIVITY_ACTIVE /\ frame[t].out = ACTIVITY_IDLE
        /\ frame[u].st = ACTIVITY_SUSPENDED /\ frame[u].out = ACTIVITY_SUSPENDED

\* C9: mouse_notify(x, y, wheel) sets prev_x, prev_y to (x, y) and enters
\* action_notify exactly when the pointer is at least sensitivity from the
\* previous position on an axis, the wheel turned or a button is held; a call
\* that entered it (its arguments are spent) has run the body of action_notify
\* once when it returns, and any other call not at all.
C9_MouseNotify ==
    [][ \A t \in Threads :
          /\ Calls(t, "mouse_notify") =>
                LET x == frame'[t].a[1]
                    y == frame'[t].a[2]
                    wheel == frame'[t].a[3]
                IN /\ prev_x' = x
                   /\ prev_y' = y
                   /\ pc'[t] \in { "an_lock", "outer_unlock" }
                   /\ pc'[t] = "an_lock" <=>
                         \/ Abs(x - prev_x) >= sensitivity
                         \/ Abs(y - prev_y) >= sensitivity
                         \/ wheel # 0
                         \/ button_is_pressed
          /\ ( entry[t] = "mouse_notify" /\ entry'[t] = "none" ) =>
                frame[t].n = IF frame[t].a = << >> THEN 1 ELSE 0 ]_vars

\* A move short of sensitivity, with no wheel and no button, has ended at the
\* far end of Coords without an action.
C9_Witness ==
    \E t \in Threads :
        /\ entry[t] = "mouse_notify"
        /\ pc[t] = "outer_unlock"
        /\ frame[t].a = << MaxCoord, MaxCoord, 0 >>
        /\ frame[t].n = 0
        /\ sensitivity = 2
        /\ ~button_is_pressed
        /\ activity_state = ACTIVITY_IDLE
        /\ last_action_time = 0

\* C10: shift_time(delta) moves each set timestamp by delta seconds, leaves an
\* unset one at 0, changes no other field and keeps the distance between two
\* set timestamps.
C10_ShiftTime ==
    [][ \A t \in Threads :
          ( pc[t] = "shift_lock" /\ Moved(t) ) =>
              LET d == frame[t].a[1] * G_USEC_PER_SEC
              IN /\ first_action_time' =
                        IF first_action_time # 0 THEN first_action_time + d ELSE 0
                 /\ last_action_time' =
                        IF last_action_time # 0 THEN last_action_time + d ELSE 0
                 /\ UNCHANGED << activity_state, noise_threshold, activity_threshold,
                                 idle_threshold, sensitivity, listener >>
                 /\ ( first_action_time # 0 /\ last_action_time # 0 ) =>
                        last_action_time' - first_action_time'
                          = last_action_time - first_action_time ]_vars

\* C11: the product that shift_time(delta) adds to the timestamps is delta
\* seconds in microseconds, for every int delta.
C11_ShiftProductExact ==
    \A t \in Threads :
        pc[t] = "shift_lock" => frame[t].d = frame[t].a[1] * G_USEC_PER_SEC

\* C12: an action that found Idle leaves first_action_time = last_action_time
\* = now and the state Active when activity_threshold is 0, Noise otherwise.
C12_ActionFromIdle ==
    [][ \A t \in Threads :
          ( pc[t] = "an_body" /\ Moved(t) /\ frame[t].st = ACTIVITY_IDLE ) =>
              /\ first_action_time' = clock
              /\ last_action_time' = clock
              /\ activity_state' = IF activity_threshold = 0 THEN ACTIVITY_ACTIVE
                                    ELSE ACTIVITY_NOISE ]_vars

\* With activity_threshold 0, a single action has turned Idle into Active at
\* a time after the first second.
C12_Witness ==
    \E t \in Threads :
        /\ pc[t] = "cl_lock"
        /\ frame[t].st = ACTIVITY_IDLE
        /\ frame[t].out = ACTIVITY_ACTIVE
        /\ frame[t].n = 1
        /\ activity_threshold = 0
        /\ activity_state = ACTIVITY_ACTIVE
        /\ first_action_time = clock
        /\ last_action_time = clock
        /\ clock > G_USEC_PER_SEC

QueryChangesState(t) ==
    /\ Calls(t, "get_current_state") =>
          /\ activity_state' =
                IF /\ activity_state = ACTIVITY_ACTIVE
                   /\ clock - last_action_time > idle_threshold
                THEN ACTIVITY_IDLE
                ELSE activity_state
          /\ UNCHANGED << first_action_time, last_action_time >>
    /\ ( entry[t] = "get_current_state" /\ Moved(t) ) =>
          UNCHANGED << activity_state, first_action_time, last_action_time >>

\* The query of thread t that turned Active into Idle returns Idle.
QueryReturnsIdle(t) ==
    ( /\ pc[t] = "gcs_return" /\ Moved(t)
      /\ frame[t].st = ACTIVITY_ACTIVE /\ frame[t].out = ACTIVITY_IDLE )
    => frame'[t].ret = ACTIVITY_IDLE

\* C14: get_current_state changes activity_state in one case only: Active with
\* the last action more than idle_threshold ago becomes Idle, and Idle is
\* returned; with the gap equal to idle_threshold, and in Idle, Noise and
\* Suspended, the state is kept; no query changes a timestamp.
C14_QueryLapsesActive ==
    [][ \A t \in Threads : QueryChangesState(t) /\ QueryReturnsIdle(t) ]_vars

\* C15: an action that found Suspended changes neither activity_state nor
\* first_action_time nor last_action_time.
C15_SuspendedActionIgnored ==
    [][ \A t \in Threads :
          ( pc[t] = "an_body" /\ Moved(t) /\ frame[t].st = ACTIVITY_SUSPENDED ) =>
              UNCHANGED << activity_state, first_action_time, last_action_time >> ]_vars

\* The thresholds in milliseconds that set_parameters is given.
MsecInputs == { p[k] : p \in ParamInputs, k \in 1..3 }

\* set_parameters(n, a, i, s) stores n, a and i milliseconds in microseconds,
\* and s.
StoresParameters(t) ==
    /\ Calls(t, "set_parameters") =>
          noise_threshold' = frame'[t].a[1] * UsecPerMsec
    /\ ( pc[t] = "sp_activity" /\ Moved(t) ) =>
          activity_threshold' = frame[t].a[2] * UsecPerMsec
    /\ ( pc[t] = "sp_idle" /\ Moved(t) ) =>
          idle_threshold' = frame[t].a[3] * UsecPerMsec
    /\ ( pc[t] = "sp_sensitivity" /\ Moved(t) ) =>
          sensitivity' = frame[t].a[4]

\* get_parameters reads a threshold of n milliseconds in microseconds as n,
\* and the sensitivity as it is, and changes no field.
ReadsParameters(t) ==
    /\ Calls(t, "get_parameters") =>
          \A n \in MsecInputs :
              noise_threshold = n * UsecPerMsec => frame'[t].a = << n >>
    /\ ( pc[t] = "gp_activity" /\ Moved(t) ) =>
          \A n \in MsecInputs :
              activity_threshold = n * UsecPerMsec => frame'[t].a[2] = n
    /\ ( pc[t] = "gp_idle" /\ Moved(t) ) =>
          \A n \in MsecInputs :
              idle_threshold = n * UsecPerMsec => frame'[t].a[3] = n
    /\ ( pc[t] = "gp_sensitivity" /\ Moved(t) ) =>
          frame'[t].a[4] = sensitivity
    /\ ( Calls(t, "get_parameters") \/ ( entry[t] = "get_parameters" /\ Moved(t) ) ) =>
          UNCHANGED fields

\* C16: for non-negative n, a, i and s, set_parameters(n, a, i, s) stores the
\* thresholds n * 1000, a * 1000 and i * 1000 microseconds and the sensitivity
\* s, and get_parameters reads (n, a, i, s) back from them and changes no
\* field.
C16_ParametersRoundTrip ==
    [][ \A t \in Threads : StoresParameters(t) /\ ReadsParameters(t) ]_vars

\* C17: button_notify(is_press) sets button_is_pressed = is_press and enters
\* action_notify exactly when is_press is true; when it returns it has run the
\* body of action_notify once after a press and not at all after a release;
\* while a button is held every mouse_notify enters action_notify and has run
\* its body once when it returns.
C17_ButtonNotify ==
    [][ \A t \in Threads :
          /\ Calls(t, "button_notify") =>
                LET is_press == frame'[t].a[1]
                IN /\ button_is_pressed' = is_press
                   /\ pc'[t] = IF is_press THEN "an_lock" ELSE "outer_unlock"
          /\ ( entry[t] = "button_notify" /\ entry'[t] = "none" ) =>
                frame[t].n = IF button_is_pressed THEN 1 ELSE 0
          /\ ( Calls(t, "mouse_notify") /\ button_is_pressed ) =>
                pc'[t] = "an_lock"
          /\ ( entry[t] = "mouse_notify" /\ entry'[t] = "none" /\ button_is_pressed ) =>
                frame[t].n = 1 ]_vars

\* While a button is held, a mouse_notify with the wheel at rest and the
\* pointer in the middle of Coords, less than sensitivity from every other
\* place, is about to run action_notify.
C17_Witness ==
    \E t \in Threads :
        /\ entry[t] = "mouse_notify"
        /\ pc[t] = "an_lock"
        /\ frame[t].a = << 1, 1, 0 >>
        /\ sensitivity = 2
        /\ button_is_pressed

\* The operation in which thread t takes its step.
Op(t) == IF entry[t] = "none" THEN entry'[t] ELSE entry[t]

\* C18: every change of activity_state is Idle to Noise, Idle to Active or
\* Noise to Active in an input callback, Active to Idle in get_current_state,
\* to Suspended in suspend, or to Idle in resume, in set_parameters or in a
\* force_idle that did not find Suspended.
C18_Transitions ==
    [][ activity_state' # activity_state =>
          \E t \in Threads :
              /\ Moved(t)
              /\ \/ /\ Op(t) \in InputCallbacks
                    /\ << activity_state, activity_state' >> \in
                          { << ACTIVITY_IDLE, ACTIVITY_NOISE >>,
                            << ACTIVITY_IDLE, ACTIVITY_ACTIVE >>,
                            << ACTIVITY_NOISE, ACTIVITY_ACTIVE >> }
                 \/ /\ Op(t) = "get_current_state"
                    /\ activity_state = ACTIVITY_ACTIVE
                    /\ activity_state' = ACTIVITY_IDLE
                 \/ /\ Op(t) = "suspend"
                    /\ activity_state' = ACTIVITY_SUSPENDED
                 \/ /\ Op(t) \in { "resume", "set_parameters" }
                    /\ activity_state' = ACTIVITY_IDLE
                 \/ /\ Op(t) = "force_idle"
                    /\ activity_state # ACTIVITY_SUSPENDED
                    /\ activity_state' = ACTIVITY_IDLE ]_vars

\* A query has turned Active into Idle, and an action on the other thread
\* has then turned that Idle into Noise.
C18_Witness ==
    \E t, u \in Threads :
        /\ entry[t] = "get_current_state"
        /\ frame[t].st = ACTIVITY_ACTIVE
        /\ frame[t].out = ACTIVITY_IDLE
        /\ entry[u] \in InputCallbacks
        /\ pc[u] = "cl_lock"
        /\ frame[u].st = ACTIVITY_IDLE
        /\ frame[u].out = ACTIVITY_NOISE
        /\ activity_state = ACTIVITY_NOISE

\* C19: when the listener that declined is no longer the one installed, the
\* end of its dispatch leaves the installed listener in place.
C19_UnsubscribeKeepsOther ==
    [][ \A t \in Threads :
          ( pc[t] = "cl_clear" /\ Moved(t) /\ listener # frame[t].l ) =>
              UNCHANGED listener ]_vars

\* The positions at which a thread calls lock.lock().
LockPositions == { "an_lock", "cl_lock", "cl_clear", "shift_lock" }

\* Thread t waits for the lock that another thread holds.
Blocked(t) == pc[t] \in LockPositions /\ ~CanLock(t)

=============================================================================
